---------------------------- MODULE Spec2Model ----------------------------
(***************************************************************************)
(* A model of ads.model.deployment.ModelDeployment: the lifecycle          *)
(* operations deploy / delete / activate / deactivate, the polling loop    *)
(* _wait_for_progress_completion, the `state` property, the log            *)
(* accessors _log_details / access_log / predict_log / logs, update and    *)
(* predict; and of the notebook driver ads.jobs.templates.driver_notebook  *)
(* (preprocess_cell, run_notebook, main).                                  *)
(*                                                                         *)
(* Remote calls are modelled by their outcomes: every call either returns  *)
(* a payload drawn from a small set or raises.  The work-request log is    *)
(* the only remote state kept between calls (it is append-only).           *)
(***************************************************************************)
EXTENDS Integers, Sequences, FiniteSets, TLC

(***************************************************************************)
(* Bounds of the model.                                                    *)
(***************************************************************************)
\* largest max_wait_time tried; max_wait_time ranges over -1..MaxWait
MaxWait == 2
\* largest poll_interval tried; poll_interval ranges over 0..MaxPoll
MaxPoll == 1
\* extra seconds an iteration may take beyond the sleep (call latency)
MaxJitter == 1
\* longest work-request log the remote service produces
MaxLog == 2
\* get_model_deployment calls of one operation are counted up to CountCap
CountCap == 2
\* longest notebook run by the notebook driver
MaxCells == 2

(***************************************************************************)
(* Values.                                                                 *)
(***************************************************************************)
\* the members of the State enumeration the code and the spec name
States == {"ACTIVE", "CREATING", "DELETED", "FAILED", "INACTIVE", "UNKNOWN"}

\* lifecycle_state strings the remote service sends
RemoteStates == {"ACTIVE", "CREATING", "DELETED", "FAILED", "INACTIVE"}

\* a payload key that is absent (or an attribute that is None)
NoField == "<absent>"

TERMINAL_STATES == {"ACTIVE", "FAILED", "DELETED", "INACTIVE"}

Urls == {"u1", "u2"}

\* messages of work-request log entries
Msgs == {"m1", "m2"}

Ops == {"deploy", "delete", "activate", "deactivate"}

WaitTimes == (0 - 1)..MaxWait

PollIntervals == 0..MaxPoll

Min(a, b) == IF a < b THEN a ELSE b

\* State._from_str: the enumeration member named by the string, UNKNOWN otherwise
FromStr(s) == IF s \in States THEN s ELSE "UNKNOWN"

\* the final_state each operation passes to the wait
FinalState(o) ==
    CASE o = "deploy"     -> "ACTIVE"
      [] o = "delete"     -> "DELETED"
      [] o = "activate"   -> "ACTIVE"
      [] o = "deactivate" -> "INACTIVE"

\* deploy's list of disallowed states without INACTIVE
Disallowed_DeployKeepsPolling(o) ==
    CASE o = "deploy"     -> {"FAILED"}
      [] o = "delete"     -> {"FAILED", "INACTIVE"}
      [] o = "activate"   -> {"FAILED", "INACTIVE"}
      [] o = "deactivate" -> {"FAILED"}

\* the disallowed_final_states each operation passes to the wait
Disallowed(o) ==
    CASE o = "deploy"     -> {"FAILED", "INACTIVE"}
      [] o = "delete"     -> {"FAILED", "INACTIVE"}
      [] o = "activate"   -> {"FAILED", "INACTIVE"}
      [] o = "deactivate" -> {"FAILED"}

\* sequences over S of length at most n
SeqsUpTo(S, n) == UNION {[1..k -> S] : k \in 0..n}

VARIABLES
    \* ---- the ModelDeployment object
    current_state,          \* self.current_state (a State name)
    url,                    \* self.url
    \* ---- the operation in progress
    pc,                     \* "idle", "status", "head", "body", "sleep"
    op,                     \* the operation called
    wait_for_completion,
    max_wait_time,
    poll_interval,
    \* ---- locals of _wait_for_progress_completion
    elapsed,                \* utils.seconds_since(start_time)
    prev_message,
    prev_workflow_stage_len,
    \* ---- the remote service
    wf_log,                 \* the work-request log of workflow_req_id
    \* ---- what the operation did (observations)
    result,                 \* "none", "ok" (returned self), "raised"
    logged,                 \* the operation's except clause logged an error
    loop_raised,            \* a remote call of the polling loop raised
    last_read,              \* lifecycle_state of the last successful remote read
    n_get,                  \* get_model_deployment calls made by the operation
    logs_called,            \* list_work_request_logs was called
    slept,                  \* time.sleep was called
    n_updates,              \* progress.update calls before "Done"
    done_reported,          \* progress.update("Done") was called
    seen_len,               \* entries of the last log list a poll returned
    seen_url                \* model_deployment_url of the payload by which a poll
                            \* changed the cached state to final_state

objVars == <<current_state, url>>
callVars == <<op, wait_for_completion, max_wait_time, poll_interval>>
waitVars == <<elapsed, prev_message, prev_workflow_stage_len>>
obsVars == <<result, logged, loop_raised, last_read, n_get, logs_called, slept,
             n_updates, done_reported, seen_len, seen_url>>
lifecycleVars == <<objVars, pc, callVars, waitVars, wf_log, obsVars>>

VARIABLES
    \* ---- the log configuration and the cached log objects
    category_log_details,   \* self.properties.category_log_details
    access_log,             \* self._access_log
    predict_log,            \* self._predict_log
    \* ---- the last call of a log accessor and what it did
    log_call,               \* "none", "_log_details", "access_log", "predict_log", "logs"
    log_arg,                \* its log_type argument
    log_raised,             \* "none" or the class of the exception raised
    ret_details,            \* the value _log_details returned
    ret_loggers,            \* the OCILog objects given to ConsolidatedLog
    n_created               \* OCILog objects the call constructed

logVars == <<category_log_details, access_log, predict_log, log_call, log_arg,
             log_raised, ret_details, ret_loggers, n_created>>

VARIABLES
    \* ---- the last call of predict and what it did
    p_called,               \* predict was called
    json_input,             \* its arguments
    data,
    auto_serialize_data,
    p_raised,               \* "none" or the class of the exception raised
    serialized,             \* the value given to InputDataSerializer, or NotSerialized
    request,                \* the request sent to the endpoint, or NoRequest
    prediction              \* the value predict returned

predictVars == <<p_called, json_input, data, auto_serialize_data, p_raised,
                 serialized, request, prediction>>

VARIABLES
    \* ---- the notebook driver (ads.jobs.templates.driver_notebook)
    nb_pc,                  \* "start", "read", "cells", "finally", "copy", "done"
    exclude_tags,           \* the exclude_tags of the preprocessor
    nb,                     \* the cells of the notebook
    idx,                    \* the cell ep.preprocess hands to preprocess_cell next
    resources,              \* the resources passed from cell to cell
    try_outcome,            \* how the try block of run_notebook ended
    ex,                     \* the local `ex` of run_notebook / main
    rn_result,              \* run_notebook: "none", "returned", "raised"
    rn_raised,              \* the class of the exception run_notebook raised
    output_written,         \* nbformat.write wrote the output notebook
    copy_called,            \* OCIHelper.copy_outputs was called
    failed_step,            \* the step of main whose own failure ended main
    main_raised             \* the class of the exception main raised, or "none"

nbVars == <<nb_pc, exclude_tags, nb, idx, resources, try_outcome, ex, rn_result,
            rn_raised, output_written, copy_called, failed_step, main_raised>>

\* the state the log accessors leave alone, besides the lifecycle
otherVars == <<predictVars, nbVars>>

\* the state the lifecycle operations leave alone
sideVars == <<logVars, otherVars>>

vars == <<lifecycleVars, sideVars>>

\* Python's None, as an argument and as an object
None == "<None>"
NoneObj == [is_none |-> TRUE]

\* no log accessor called yet, nothing cached
NoLogCall ==
    /\ access_log = NoneObj
    /\ predict_log = NoneObj
    /\ log_call = "none"
    /\ log_arg = None
    /\ log_raised = "none"
    /\ ret_details = NoneObj
    /\ ret_loggers = <<>>
    /\ n_created = 0

\* InputDataSerializer not constructed; nothing sent to the endpoint
NotSerialized == "<not serialized>"
NoRequest == [sent |-> FALSE]

\* predict not called yet
NoPredictCall ==
    /\ p_called = FALSE
    /\ json_input = None
    /\ data = None
    /\ auto_serialize_data = FALSE
    /\ p_raised = "none"
    /\ serialized = NotSerialized
    /\ request = NoRequest
    /\ prediction = None

\* exclude_tags=None
NoTags == [is_none |-> TRUE, tags |-> {}]

\* the driver not started, no notebook loaded
NoNotebookRun ==
    /\ nb_pc = "start"
    /\ exclude_tags = NoTags
    /\ nb = <<>>
    /\ idx = 0
    /\ resources = "res0"
    /\ try_outcome = "none"
    /\ ex = None
    /\ rn_result = "none"
    /\ rn_raised = "none"
    /\ output_written = FALSE
    /\ copy_called = FALSE
    /\ failed_step = "none"
    /\ main_raised = "none"

\* no poll of the operation has changed the cached state to final_state
NoUrlSeen == "<no change seen>"

\* no call in progress and nothing recorded of an earlier one
NoCall ==
    /\ pc = "idle"
    /\ op = "deploy"
    /\ wait_for_completion = FALSE
    /\ max_wait_time = 0
    /\ poll_interval = 0
    /\ elapsed = 0
    /\ prev_message = ""
    /\ prev_workflow_stage_len = 0
    /\ wf_log = <<>>
    /\ result = "none"
    /\ logged = FALSE
    /\ loop_raised = FALSE
    /\ n_get = 0
    /\ logs_called = FALSE
    /\ slept = FALSE
    /\ n_updates = 0
    /\ done_reported = FALSE
    /\ seen_len = 0
    /\ seen_url = NoUrlSeen

\* the object after construction: the state of the given properties (UNKNOWN
\* without one), the given url; no call made yet
Init ==
    /\ current_state \in States
    /\ url \in {"", "u1"}
    /\ last_read = "none"
    /\ NoCall
    /\ category_log_details = NoneObj
    /\ NoLogCall
    /\ NoPredictCall
    /\ NoNotebookRun

(***************************************************************************)
(* Pure parts of the code.                                                 *)
(***************************************************************************)
\* the wait entered whatever wait_for_completion says
ShouldWait_Always(w) == TRUE

\* `if wait_for_completion:` of deploy / delete / activate / deactivate
ShouldWait(w) == w

\* the while condition with the time budget compared by <= (one poll too many)
ContinuePolling_LateStop(mwt, el, st, fin) == (mwt < 0 \/ el <= mwt) /\ st # fin

\* the while condition without the `max_wait_time < 0` case
ContinuePolling_NoUnbounded(mwt, el, st, fin) == el < mwt /\ st # fin

\* the while condition of _wait_for_progress_completion
ContinuePolling(mwt, el, st, fin) == (mwt < 0 \/ el < mwt) /\ st # fin

\* the `break` on a disallowed state at the top of the loop body
BreakOnDisallowed(st, dis) == st \in dis

\* the test for the key inverted
PolledState_Inverted(ls) == IF ls = NoField THEN FromStr(ls) ELSE "UNKNOWN"

\* State._from_str(payload["lifecycle_state"]) if the key is there, else UNKNOWN
PolledState(ls) == IF ls # NoField THEN FromStr(ls) ELSE "UNKNOWN"

\* `prev_message != workflow_payload[-1].message` for a non-empty list
IsFresh(pm, log) == Len(log) > 0 /\ pm # log[Len(log)]

\* the number of progress.update calls one poll makes for the list `log`:
\* range(len(log) - prev_workflow_stage_len) is empty for a negative length
NewUpdates(pm, pl, log) ==
    IF IsFresh(pm, log) /\ Len(log) > pl THEN Len(log) - pl ELSE 0

\* self.url after a poll: the payload's url when the state changed and the
\* payload has one
PolledUrl(old, prev_state, new_state, pu) ==
    IF prev_state # new_state /\ pu # NoField THEN pu ELSE old

\* an iteration that does not sleep: only the d extra seconds pass
AfterSleep_NoSleep(el, pi, d) == Min(el + d, MaxWait)

\* seconds_since(start_time) after time.sleep(poll_interval) and d more seconds;
\* values past MaxWait compare alike with every max_wait_time, so they are merged
AfterSleep(el, pi, d) == Min(el + pi + d, MaxWait)

(***************************************************************************)
(* Steps shared by the operations.                                         *)
(***************************************************************************)
\* a new call: its arguments, and nothing observed yet
NewCall(o, w, mwt, pi) ==
    /\ op' = o
    /\ wait_for_completion' = w
    /\ max_wait_time' = mwt
    /\ poll_interval' = pi
    /\ logged' = FALSE
    /\ loop_raised' = FALSE
    /\ logs_called' = FALSE
    /\ slept' = FALSE
    /\ n_updates' = 0
    /\ done_reported' = FALSE
    /\ seen_len' = 0
    /\ seen_url' = NoUrlSeen

\* the first lines of _wait_for_progress_completion
EnterWait ==
    /\ pc' = "head"
    /\ elapsed' = 0
    /\ prev_message' = ""
    /\ prev_workflow_stage_len' = 0
    /\ result' = "none"

\* the operation returns self without waiting
ReturnSelf ==
    /\ pc' = "idle"
    /\ result' = "ok"
    /\ UNCHANGED waitVars

\* an exception of the loop body handled like the operations' own except
\* clauses: logged and raised to the caller
LoopCallRaises_Propagates ==
    /\ loop_raised' = TRUE
    /\ pc' = "idle"
    /\ result' = "raised"
    /\ logged' = TRUE

\* an exception of the loop body reaches `except Exception: pass`; the
\* iteration goes on to its sleep
LoopCallRaises ==
    /\ loop_raised' = TRUE
    /\ pc' = "sleep"
    /\ UNCHANGED <<result, logged>>

(***************************************************************************)
(* The operations.                                                         *)
(***************************************************************************)
\* deploy(): the create request, then the wait.  The response of the create
\* request carries the deployment (lifecycle_state, id, model_deployment_url).
Deploy(w, mwt, pi) ==
    /\ UNCHANGED sideVars
    /\ NoCall
    /\ NewCall("deploy", w, mwt, pi)
    /\ n_get' = 0
    /\ \/ \* create_model_deployment_and_wait_for_state raises
          /\ pc' = "idle"
          /\ result' = "raised"
          /\ UNCHANGED <<objVars, waitVars, wf_log, last_read>>
       \/ \E ls \in RemoteStates, u \in Urls :
            /\ current_state' = FromStr(ls)
            /\ last_read' = ls
            /\ url' = u
            /\ wf_log' = <<>>
            /\ IF ShouldWait(w) THEN EnterWait ELSE ReturnSelf

\* delete(), activate(), deactivate(): the request that starts the work request
Request(o, w, mwt, pi) ==
    /\ UNCHANGED sideVars
    /\ NoCall
    /\ o \in {"delete", "activate", "deactivate"}
    /\ NewCall(o, w, mwt, pi)
    /\ n_get' = 0
    /\ \/ \* the request raises
          /\ pc' = "idle"
          /\ result' = "raised"
          /\ UNCHANGED wf_log
       \/ /\ pc' = "status"
          /\ result' = "none"
          /\ wf_log' = <<>>
    /\ UNCHANGED <<objVars, waitVars, last_read>>

\* delete(), activate(), deactivate(): the status read after the request,
\* outside any try block, then the wait
StatusRead ==
    /\ UNCHANGED sideVars
    /\ pc = "status"
    /\ n_get' = Min(n_get + 1, CountCap)
    /\ \/ \* get_model_deployment raises: the exception leaves the operation
          /\ pc' = "idle"
          /\ result' = "raised"
          /\ UNCHANGED <<objVars, waitVars, last_read>>
       \/ \E ls \in RemoteStates, u \in Urls :
            /\ current_state' = FromStr(ls)
            /\ last_read' = ls
            /\ url' = IF op = "delete" THEN url ELSE u
            /\ IF ShouldWait(wait_for_completion) THEN EnterWait ELSE ReturnSelf
    /\ UNCHANGED <<callVars, wf_log, logged, loop_raised, logs_called, slept,
                   n_updates, done_reported, seen_len, seen_url>>

(***************************************************************************)
(* _wait_for_progress_completion.                                          *)
(***************************************************************************)
\* the top of an iteration: the while condition, then the disallowed-state
\* break; leaving the loop reports "Done" and the operation returns self
LoopCheck ==
    /\ UNCHANGED sideVars
    /\ pc = "head"
    /\ IF /\ ContinuePolling(max_wait_time, elapsed, current_state, FinalState(op))
          /\ ~BreakOnDisallowed(current_state, Disallowed(op))
       THEN /\ pc' = "body"
            /\ UNCHANGED <<waitVars, result, done_reported>>
       ELSE /\ pc' = "idle"
            /\ done_reported' = TRUE
            /\ result' = "ok"
            /\ elapsed' = 0
            /\ prev_message' = ""
            /\ prev_workflow_stage_len' = 0
    /\ UNCHANGED <<objVars, callVars, wf_log, logged, loop_raised, last_read, n_get,
                   logs_called, slept, n_updates, seen_len, seen_url>>

\* the try block of an iteration: the status fetch, the work-request log
\* fetch with its progress updates, the url update on a state change.  Either
\* call may raise.  The service may have appended entries to the log.
PollOnce ==
    /\ UNCHANGED sideVars
    /\ pc = "body"
    /\ n_get' = Min(n_get + 1, CountCap)
    /\ \/ \* get_model_deployment raises
          /\ LoopCallRaises
          /\ UNCHANGED <<objVars, prev_message, prev_workflow_stage_len, wf_log,
                         last_read, logs_called, n_updates, seen_len, seen_url>>
       \/ \E ls \in RemoteStates \cup {NoField}, pu \in Urls \cup {NoField} :
            /\ current_state' = PolledState(ls)
            /\ last_read' = ls
            /\ seen_url' = IF /\ PolledState(ls) # current_state
                              /\ PolledState(ls) = FinalState(op)
                           THEN pu ELSE seen_url
            /\ logs_called' = TRUE
            /\ \/ \* list_work_request_logs raises
                  /\ LoopCallRaises
                  /\ UNCHANGED <<url, prev_message, prev_workflow_stage_len,
                                 wf_log, n_updates, seen_len>>
               \/ \E ext \in SeqsUpTo(Msgs, MaxLog - Len(wf_log)) :
                    LET log == wf_log \o ext IN
                    /\ wf_log' = log
                    /\ seen_len' = Len(log)
                    /\ n_updates' = n_updates
                          + NewUpdates(prev_message, prev_workflow_stage_len, log)
                    /\ prev_workflow_stage_len' =
                          IF IsFresh(prev_message, log) THEN Len(log)
                          ELSE prev_workflow_stage_len
                    /\ prev_message' =
                          IF IsFresh(prev_message, log) THEN log[Len(log)]
                          ELSE prev_message
                    /\ url' = PolledUrl(url, current_state, PolledState(ls), pu)
                    /\ pc' = "sleep"
                    /\ UNCHANGED <<result, logged, loop_raised>>
    /\ UNCHANGED <<callVars, elapsed, slept, done_reported>>

\* time.sleep(poll_interval) at the end of an iteration
Sleep ==
    /\ UNCHANGED sideVars
    /\ pc = "sleep"
    /\ \E d \in 0..MaxJitter : elapsed' = AfterSleep(elapsed, poll_interval, d)
    /\ slept' = TRUE
    /\ pc' = "head"
    /\ UNCHANGED <<objVars, callVars, prev_message, prev_workflow_stage_len,
                   wf_log, result, logged, loop_raised, last_read, n_get,
                   logs_called, n_updates, done_reported, seen_len, seen_url>>

(***************************************************************************)
(* The `state` property: up to DEFAULT_RETRYING_REQUEST_ATTEMPTS reads.    *)
(***************************************************************************)
DEFAULT_RETRYING_REQUEST_ATTEMPTS == 3

\* `failed` attempts raise; the next one, if any is left, succeeds
StateProperty ==
    /\ UNCHANGED sideVars
    /\ NoCall
    /\ \E failed \in 0..DEFAULT_RETRYING_REQUEST_ATTEMPTS :
         IF failed < DEFAULT_RETRYING_REQUEST_ATTEMPTS
         THEN \E ls \in RemoteStates :
                /\ current_state' = FromStr(ls)
                /\ last_read' = ls
         ELSE UNCHANGED <<current_state, last_read>>
    /\ UNCHANGED <<url, pc, callVars, waitVars, wf_log, result, logged, loop_raised,
                   n_get, logs_called, slept, n_updates, done_reported, seen_len,
                   seen_url>>

\* the caller goes on after a call returned or raised: the arguments and the
\* effects recorded of that call are dropped, the object stays as it is
CallerContinues ==
    /\ pc = "idle"
    /\ ~NoCall
    /\ op' = "deploy"
    /\ wait_for_completion' = FALSE
    /\ max_wait_time' = 0
    /\ poll_interval' = 0
    /\ elapsed' = 0
    /\ prev_message' = ""
    /\ prev_workflow_stage_len' = 0
    /\ wf_log' = <<>>
    /\ result' = "none"
    /\ logged' = FALSE
    /\ loop_raised' = FALSE
    /\ n_get' = 0
    /\ logs_called' = FALSE
    /\ slept' = FALSE
    /\ n_updates' = 0
    /\ done_reported' = FALSE
    /\ seen_len' = 0
    /\ seen_url' = NoUrlSeen
    /\ UNCHANGED <<objVars, pc, last_read, sideVars>>

WaitStep == StatusRead \/ LoopCheck \/ PollOnce \/ Sleep

Next ==
    \/ \E w \in BOOLEAN, mwt \in WaitTimes, pi \in PollIntervals : Deploy(w, mwt, pi)
    \/ \E o \in Ops, w \in BOOLEAN, mwt \in WaitTimes, pi \in PollIntervals :
         Request(o, w, mwt, pi)
    \/ StatusRead
    \/ LoopCheck
    \/ PollOnce
    \/ Sleep
    \/ StateProperty
    \/ CallerContinues

Spec == Init /\ [][Next]_vars

\* the operations are synchronous: a call that was started keeps running
FairSpec == Spec /\ WF_vars(WaitStep)

(***************************************************************************)
(* The log accessors: _log_details, access_log, predict_log, logs.         *)
(***************************************************************************)
\* ModelDeploymentLogType
ACCESS == "access"
PREDICT == "predict"

\* the log_type arguments tried: None, the empty string, the two log types
\* and a string that names no log
LogTypeArgs == {None, "", ACCESS, PREDICT, "other"}

LogIds == {"log_a", "log_p"}
LogGroupIds == {"grp1", "grp2"}
MODEL_DEPLOYMENT_ID == "md1"
COMPARTMENT_ID == "cmp1"

\* the log configuration of one log type, or None
LogConfigs == [log_id : LogIds, log_group_id : LogGroupIds] \cup {NoneObj}

\* properties.category_log_details: None, or an object with the two attributes
CategoryLogDetails == [access : LogConfigs, predict : LogConfigs] \cup {NoneObj}

\* Python truth of a string-or-None argument (`not log_type`)
TruthyArg(t) == t \notin {None, ""}

\* Python truth of an object-or-None value
Truthy(v) == v # NoneObj

\* getattr(category_log_details, log_type) for the two log types
GetAttr(cld, t) == IF t = ACCESS THEN cld.access ELSE cld.predict

\* _log_details(log_type): what it raises and what it returns
LogDetails(cld, t) ==
    IF ~Truthy(cld) \/ ~Truthy(GetAttr(cld, t))
    THEN [raised |-> "LogNotConfiguredError", value |-> NoneObj]
    ELSE [raised |-> "none", value |-> GetAttr(cld, t)]

\* OCILog(compartment_id, id, log_group_id, source, annotation)
OCILog(id, group, annotation) ==
    [compartment_id |-> COMPARTMENT_ID, id |-> id, log_group_id |-> group,
     source |-> MODEL_DEPLOYMENT_ID, annotation |-> annotation]

\* the access_log / predict_log property for the cached object `cache`:
\* the cached object, or a new one built from the log details
LogProperty(cache, cld, t) ==
    IF Truthy(cache)
    THEN [raised |-> "none", log |-> cache, created |-> 0]
    ELSE LET d == LogDetails(cld, t) IN
         IF d.raised # "none"
         THEN [raised |-> d.raised, log |-> cache, created |-> 0]
         ELSE [raised |-> "none",
               log |-> OCILog(d.value.log_id, d.value.log_group_id, t),
               created |-> 1]

\* the list one property read adds to `loggers` under try / except
\* LogNotConfiguredError: pass
Appended(r) == IF r.raised = "none" THEN <<r.log>> ELSE <<>>

\* logs(log_type): the exception raised, the loggers given to
\* ConsolidatedLog, the two cached objects afterwards, the objects built
Logs(t, acache, pcache, cld) ==
    LET a == LogProperty(acache, cld, ACCESS)
        p == LogProperty(pcache, cld, PREDICT)
    IN  IF ~TruthyArg(t)
        THEN [raised |-> IF Appended(a) \o Appended(p) = <<>>
                         THEN "LogNotConfiguredError" ELSE "none",
              loggers |-> Appended(a) \o Appended(p),
              access |-> a.log, predict |-> p.log,
              created |-> a.created + p.created]
        ELSE IF t = ACCESS
        THEN [raised |-> a.raised, loggers |-> Appended(a),
              access |-> a.log, predict |-> pcache, created |-> a.created]
        ELSE IF t = PREDICT
        THEN [raised |-> p.raised, loggers |-> Appended(p),
              access |-> acache, predict |-> p.log, created |-> p.created]
        ELSE [raised |-> "ValueError", loggers |-> <<>>,
              access |-> acache, predict |-> pcache, created |-> 0]

\* a call of _log_details(log_type)
CallLogDetails(t) ==
    /\ t \in {ACCESS, PREDICT}
    /\ log_call' = "_log_details"
    /\ log_arg' = t
    /\ log_raised' = LogDetails(category_log_details, t).raised
    /\ ret_details' = LogDetails(category_log_details, t).value
    /\ ret_loggers' = <<>>
    /\ n_created' = 0
    /\ UNCHANGED <<category_log_details, access_log, predict_log, lifecycleVars, otherVars>>

\* a read of the access_log property
ReadAccessLog ==
    LET r == LogProperty(access_log, category_log_details, ACCESS) IN
    /\ log_call' = "access_log"
    /\ log_arg' = ACCESS
    /\ log_raised' = r.raised
    /\ access_log' = r.log
    /\ ret_loggers' = Appended(r)
    /\ n_created' = r.created
    /\ ret_details' = NoneObj
    /\ UNCHANGED <<category_log_details, predict_log, lifecycleVars, otherVars>>

\* a read of the predict_log property
ReadPredictLog ==
    LET r == LogProperty(predict_log, category_log_details, PREDICT) IN
    /\ log_call' = "predict_log"
    /\ log_arg' = PREDICT
    /\ log_raised' = r.raised
    /\ predict_log' = r.log
    /\ ret_loggers' = Appended(r)
    /\ n_created' = r.created
    /\ ret_details' = NoneObj
    /\ UNCHANGED <<category_log_details, access_log, lifecycleVars, otherVars>>

\* a call of logs(log_type)
CallLogs(t) ==
    LET r == Logs(t, access_log, predict_log, category_log_details) IN
    /\ log_call' = "logs"
    /\ log_arg' = t
    /\ log_raised' = r.raised
    /\ access_log' = r.access
    /\ predict_log' = r.predict
    /\ ret_loggers' = IF r.raised = "none" THEN r.loggers ELSE <<>>
    /\ n_created' = r.created
    /\ ret_details' = NoneObj
    /\ UNCHANGED <<category_log_details, lifecycleVars, otherVars>>

\* update(): the update request, then (wait_for_completion only) the refresh
\* of self.properties from get_model_deployment, whose payload carries the log
\* configuration the service now holds.  _access_log and _predict_log are not
\* touched.  A raising call leaves the properties as they are.
Update(w) ==
    /\ log_call' = "update"
    /\ log_arg' = None
    /\ ret_details' = NoneObj
    /\ ret_loggers' = <<>>
    /\ n_created' = 0
    /\ \/ \* update_model_deployment_and_wait_for_state or the refresh raises
          /\ log_raised' = "Exception"
          /\ UNCHANGED category_log_details
       \/ /\ log_raised' = "none"
          /\ IF w
             THEN category_log_details' \in CategoryLogDetails
             ELSE UNCHANGED category_log_details
    /\ UNCHANGED <<access_log, predict_log, lifecycleVars, otherVars>>

\* a constructed deployment with any log configuration
LogInit ==
    /\ current_state = "UNKNOWN"
    /\ url = ""
    /\ last_read = "none"
    /\ NoCall
    /\ category_log_details \in CategoryLogDetails
    /\ NoLogCall
    /\ NoPredictCall
    /\ NoNotebookRun

LogNext ==
    \/ \E t \in {ACCESS, PREDICT} : CallLogDetails(t)
    \/ ReadAccessLog
    \/ ReadPredictLog
    \/ \E t \in LogTypeArgs : CallLogs(t)
    \/ \E w \in BOOLEAN : Update(w)

LogSpec == LogInit /\ [][LogNext]_vars

(***************************************************************************)
(* predict.                                                                *)
(***************************************************************************)
\* the values tried for json_input and data: None, a value Python takes as
\* false (0, "", []), a value it takes as true
InputValues == {None, "falsy", "truthy"}

Responses == {"r1", "r2"}

\* Python truth of an input value
TruthyValue(v) == v \notin {None, "falsy"}

\* `data is None and json_input is None`
NeitherProvided(d, j) == d = None /\ j = None

\* the test written with the values' truth instead of `is not None`
BothProvided_ByTruth(d, j) == TruthyValue(d) /\ TruthyValue(j)

\* `data is not None and json_input is not None`
BothProvided(d, j) == d # None /\ j # None

\* `data or json_input`
DataOr(d, j) == IF TruthyValue(d) THEN d ELSE j

\* f"{self.url}/predict"
Endpoint(u) == <<u, "/predict">>

\* predict raises before anything is serialized or sent
PredictRaises(cls) ==
    /\ p_raised' = cls
    /\ serialized' = NotSerialized
    /\ request' = NoRequest
    /\ prediction' = None

\* a request goes to the endpoint; the call returns the response or raises
PredictSends(via, d, is_json) ==
    /\ request' = [sent |-> TRUE, via |-> via, endpoint |-> Endpoint(url),
                   data |-> d, is_json_payload |-> is_json]
    /\ \/ p_raised' = "Exception" /\ prediction' = None
       \/ p_raised' = "none" /\ prediction' \in Responses

\* predict(json_input=j, data=d, auto_serialize_data=a)
Predict(j, d, a) ==
    /\ p_called' = TRUE
    /\ json_input' = j
    /\ data' = d
    /\ auto_serialize_data' = a
    /\ IF NeitherProvided(d, j) \/ BothProvided(d, j)
       THEN PredictRaises("AttributeError")
       ELSE IF a
       THEN /\ serialized' = DataOr(d, j)
            /\ \/ \* InputDataSerializer raises
                  /\ p_raised' = "Exception"
                  /\ request' = NoRequest
                  /\ prediction' = None
               \/ PredictSends("InputDataSerializer.send", DataOr(d, j), TRUE)
       ELSE IF j # None
       THEN \/ \* json_input is not JSON serializable
               PredictRaises("ValueError")
            \/ /\ serialized' = NotSerialized
               /\ PredictSends("send_request", j, TRUE)
       ELSE /\ serialized' = NotSerialized
            /\ \E is_json \in BOOLEAN : PredictSends("send_request", d, is_json)
    /\ UNCHANGED <<lifecycleVars, logVars, nbVars>>

\* a constructed deployment in any state, with or without a url
PredictInit ==
    /\ current_state \in States
    /\ url \in {""} \cup Urls
    /\ last_read = "none"
    /\ NoCall
    /\ category_log_details = NoneObj
    /\ NoLogCall
    /\ NoPredictCall
    /\ NoNotebookRun

PredictNext ==
    \E j \in InputValues, d \in InputValues, a \in BOOLEAN : Predict(j, d, a)

PredictSpec == PredictInit /\ [][PredictNext]_vars

(***************************************************************************)
(* The notebook driver: ADSExecutePreprocessor.preprocess_cell,            *)
(* run_notebook, main.  nbconvert's executor and the helpers of            *)
(* driver_utils are modelled by their outcomes.                            *)
(***************************************************************************)
\* the cell tags used
Tags == {"skip", "keep"}

\* the metadata of a cell: its tags, or metadata whose tags cannot be read
\* (reading them raises)
CellTagValues ==
    {[readable |-> TRUE, tags |-> T] : T \in SUBSET Tags}
        \cup {[readable |-> FALSE, tags |-> {}]}

\* a cell of the notebook file: not run, nothing printed
NewCells ==
    {[readable |-> m.readable, tags |-> m.tags, state |-> "new", printed |-> FALSE] :
        m \in CellTagValues}

\* at most MaxCells cells
Notebooks == SeqsUpTo(NewCells, MaxCells)

\* exclude_tags: None, or a list of tags (the empty list included)
ExcludeTagValues == {NoTags} \cup {[is_none |-> FALSE, tags |-> T] : T \in SUBSET Tags}

\* `if self.exclude_tags:`
TruthyTags(x) == ~x.is_none /\ x.tags # {}

\* a cell skipped only when all its tags are exclude tags
Excluded_AllTags(cell, x) ==
    /\ TruthyTags(x)
    /\ cell.readable
    /\ cell.tags # {}
    /\ \A tag \in cell.tags : tag \in x.tags

\* the early return of preprocess_cell: some tag of the cell is in
\* exclude_tags; an error reading the tags is logged and the cell is run
Excluded(cell, x) ==
    /\ TruthyTags(x)
    /\ cell.readable
    /\ \E tag \in cell.tags : tag \in x.tags

\* the except clause missing: a CellExecutionError leaves run_notebook
AfterTry_NoExcept(o) ==
    CASE o = "ok"                 -> [ex |-> None, raises |-> "none"]
      [] o = "CellExecutionError" -> [ex |-> None, raises |-> "CellExecutionError"]
      [] o = "Exception"          -> [ex |-> None, raises |-> "Exception"]

\* try / except CellExecutionError of run_notebook: the value of `ex` and the
\* exception that is still propagating when the finally clause runs
AfterTry(o) ==
    CASE o = "ok"                 -> [ex |-> None, raises |-> "none"]
      [] o = "CellExecutionError" -> [ex |-> "CellExecutionError", raises |-> "none"]
      [] o = "Exception"          -> [ex |-> None, raises |-> "Exception"]

\* main returns normally whenever copy_outputs did
MainOutcome_NoRaise(e, copy_ok) == IF ~copy_ok THEN "Exception" ELSE "none"

\* the end of main: an exception of copy_outputs, else `if ex: raise ex`
MainOutcome(e, copy_ok) ==
    IF ~copy_ok THEN "Exception" ELSE IF e # None THEN e ELSE "none"

\* main up to the call of run_notebook: conda_unpack, makedirs, the parsing
\* of NOTEBOOK_EXCLUDE_TAGS; any of them may raise
MainStart ==
    /\ nb_pc = "start"
    /\ \/ /\ nb_pc' = "done"
          /\ failed_step' = "setup"
          /\ main_raised' = "Exception"
       \/ /\ nb_pc' = "read"
          /\ UNCHANGED <<failed_step, main_raised>>
    /\ UNCHANGED <<exclude_tags, nb, idx, resources, try_outcome, ex, rn_result,
                   rn_raised, output_written, copy_called>>
    /\ UNCHANGED <<lifecycleVars, logVars, predictVars>>

\* run_notebook before its try block: the notebook is read; open or
\* nbformat.read may raise
ReadNotebook ==
    /\ nb_pc = "read"
    /\ \/ /\ nb_pc' = "done"
          /\ rn_result' = "raised"
          /\ rn_raised' = "Exception"
          /\ failed_step' = "run_notebook"
          /\ main_raised' = "Exception"
          /\ UNCHANGED idx
       \/ /\ nb_pc' = "cells"
          /\ idx' = 1
          /\ UNCHANGED <<rn_result, rn_raised, failed_step, main_raised>>
    /\ UNCHANGED <<exclude_tags, nb, resources, try_outcome, ex, output_written,
                   copy_called>>
    /\ UNCHANGED <<lifecycleVars, logVars, predictVars>>

\* the cell after its run
RunCell(cell, st, pr) ==
    [readable |-> cell.readable, tags |-> cell.tags, state |-> st, printed |-> pr]

\* preprocess_cell for the next cell: the early return for an excluded cell,
\* else the run of the cell (which may raise CellExecutionError or another
\* exception) and the printing of its outputs (not for a cell without
\* outputs; an error while printing is logged)
PreprocessCell ==
    /\ nb_pc = "cells"
    /\ idx <= Len(nb)
    /\ IF Excluded(nb[idx], exclude_tags)
       THEN /\ idx' = idx + 1
            /\ UNCHANGED <<nb, resources, nb_pc, try_outcome>>
       ELSE \/ \E pr \in BOOLEAN, res \in {resources, "res1"} :
                 /\ nb' = [nb EXCEPT ![idx] = RunCell(nb[idx], "executed", pr)]
                 /\ resources' = res
                 /\ idx' = idx + 1
                 /\ UNCHANGED <<nb_pc, try_outcome>>
            \/ \E o \in {"CellExecutionError", "Exception"} :
                 /\ nb' = [nb EXCEPT ![idx] =
                             RunCell(nb[idx], IF o = "Exception" THEN "died" ELSE "failed",
                                     FALSE)]
                 /\ try_outcome' = o
                 /\ nb_pc' = "finally"
                 /\ UNCHANGED <<idx, resources>>
    /\ UNCHANGED <<exclude_tags, ex, rn_result, rn_raised, output_written,
                   copy_called, failed_step, main_raised>>
    /\ UNCHANGED <<lifecycleVars, logVars, predictVars>>

\* ep.preprocess returns after the last cell
PreprocessReturns ==
    /\ nb_pc = "cells"
    /\ idx > Len(nb)
    /\ try_outcome' = "ok"
    /\ nb_pc' = "finally"
    /\ UNCHANGED <<exclude_tags, nb, idx, resources, ex, rn_result, rn_raised,
                   output_written, copy_called, failed_step, main_raised>>
    /\ UNCHANGED <<lifecycleVars, logVars, predictVars>>

\* the except and finally clauses of run_notebook and its return: the output
\* notebook is written (the write may raise), then run_notebook returns `ex`
\* or the exception of the try block goes on to main
WriteNotebook ==
    /\ nb_pc = "finally"
    /\ ex' = AfterTry(try_outcome).ex
    /\ \/ \* open or nbformat.write raises
          /\ rn_result' = "raised"
          /\ rn_raised' = "Exception"
          /\ failed_step' = "run_notebook"
          /\ main_raised' = "Exception"
          /\ nb_pc' = "done"
          /\ UNCHANGED output_written
       \/ /\ output_written' = TRUE
          /\ IF AfterTry(try_outcome).raises # "none"
             THEN /\ rn_result' = "raised"
                  /\ rn_raised' = AfterTry(try_outcome).raises
                  /\ failed_step' = "run_notebook"
                  /\ main_raised' = AfterTry(try_outcome).raises
                  /\ nb_pc' = "done"
             ELSE /\ rn_result' = "returned"
                  /\ nb_pc' = "copy"
                  /\ UNCHANGED <<rn_raised, failed_step, main_raised>>
    /\ UNCHANGED <<exclude_tags, nb, idx, resources, try_outcome, copy_called>>
    /\ UNCHANGED <<lifecycleVars, logVars, predictVars>>

\* main after run_notebook: OCIHelper.copy_outputs (which may raise), then
\* `if ex: raise ex`
CopyOutputs ==
    /\ nb_pc = "copy"
    /\ copy_called' = TRUE
    /\ \E copy_ok \in BOOLEAN :
         /\ main_raised' = MainOutcome(ex, copy_ok)
         /\ failed_step' = IF copy_ok THEN "none" ELSE "copy_outputs"
    /\ nb_pc' = "done"
    /\ UNCHANGED <<exclude_tags, nb, idx, resources, try_outcome, ex, rn_result,
                   rn_raised, output_written>>
    /\ UNCHANGED <<lifecycleVars, logVars, predictVars>>

\* the driver about to start: any notebook file, any exclude tags
NbInit ==
    /\ current_state = "UNKNOWN"
    /\ url = ""
    /\ last_read = "none"
    /\ NoCall
    /\ category_log_details = NoneObj
    /\ NoLogCall
    /\ NoPredictCall
    /\ nb_pc = "start"
    /\ exclude_tags \in ExcludeTagValues
    /\ nb \in Notebooks
    /\ idx = 0
    /\ resources = "res0"
    /\ try_outcome = "none"
    /\ ex = None
    /\ rn_result = "none"
    /\ rn_raised = "none"
    /\ output_written = FALSE
    /\ copy_called = FALSE
    /\ failed_step = "none"
    /\ main_raised = "none"

NbNext ==
    \/ MainStart
    \/ ReadNotebook
    \/ PreprocessCell
    \/ PreprocessReturns
    \/ WriteNotebook
    \/ CopyOutputs

NbSpec == NbInit /\ [][NbNext]_vars

(***************************************************************************)
(* Properties of the polling loop.                                         *)
(***************************************************************************)
\* the wait is at the top of an iteration and one of the three stop
\* conditions holds: target reached, disallowed state, time budget used up
StopAtHead ==
    \/ current_state = FinalState(op)
    \/ current_state \in Disallowed(op)
    \/ ~(max_wait_time < 0 \/ elapsed < max_wait_time)

\* C1: a status fetch is issued in an iteration only if, at the start of the
\* iteration, the cached state differs from final_state, is not disallowed and
\* (max_wait_time < 0 or elapsed < max_wait_time); when a stop condition holds
\* at the start of an iteration the wait fetches nothing more and returns.
C1_FetchOnlyWhileContinuing ==
    /\ [](pc = "body" => ~StopAtHead)
    /\ [][(pc = "head" /\ StopAtHead)
            => (pc' = "idle" /\ result' = "ok" /\ n_get' = n_get)]_vars

\* C1 witness: an iteration starts after the time budget ran out during polling
C1_Witness ==
    /\ pc = "head"
    /\ slept
    /\ max_wait_time > 0
    /\ elapsed >= max_wait_time
    /\ current_state # FinalState(op)
    /\ current_state \notin Disallowed(op)

\* the states in which each operation's wait stops, written out
StopStatesOf(o) ==
    CASE o = "deploy"     -> {"ACTIVE", "FAILED", "INACTIVE"}
      [] o = "activate"   -> {"ACTIVE", "FAILED", "INACTIVE"}
      [] o = "delete"     -> {"DELETED", "FAILED", "INACTIVE"}
      [] o = "deactivate" -> {"INACTIVE", "FAILED"}

\* C3 as stated: in the wait of every operation, a terminal cached state
\* (ACTIVE, FAILED, DELETED, INACTIVE) at the start of an iteration means no
\* further status fetch.
C3_TerminalStatesStopPolling ==
    pc = "body" => current_state \notin TERMINAL_STATES

\* C3 amended: in the wait of each operation, no status fetch is issued when
\* the cached state at the start of an iteration is the operation's target
\* state or one of its disallowed states (deploy, activate: ACTIVE, FAILED,
\* INACTIVE; delete: DELETED, FAILED, INACTIVE; deactivate: INACTIVE, FAILED);
\* the wait then returns.  In the other terminal states the wait polls again
\* while the time budget lasts.
C3_StopStatesStopPolling ==
    /\ [](pc = "body" => current_state \notin StopStatesOf(op))
    /\ [][(pc = "head" /\ current_state \in StopStatesOf(op))
            => (pc' = "idle" /\ n_get' = n_get)]_vars
    /\ [][(/\ pc = "head"
           /\ current_state \in TERMINAL_STATES \ StopStatesOf(op)
           /\ (max_wait_time < 0 \/ elapsed < max_wait_time))
            => pc' = "body"]_vars

\* C3 witness: a poll of deactivate has observed FAILED and the next
\* iteration starts
C3_Witness ==
    /\ pc = "head"
    /\ op = "deactivate"
    /\ slept
    /\ logs_called
    /\ current_state = "FAILED"
    /\ last_read = "FAILED"

\* C4: with max_wait_time < 0 the wait never stops because of elapsed time: it
\* returns only when the cached state is final_state or a disallowed state,
\* and otherwise goes on to the next poll, however much time has passed.
C4_NegativeWaitIsUnbounded ==
    /\ [][(pc = "head" /\ max_wait_time < 0 /\ pc' = "idle")
            => (current_state = FinalState(op) \/ current_state \in Disallowed(op))]_vars
    /\ [][(/\ pc = "head"
           /\ max_wait_time < 0
           /\ current_state # FinalState(op)
           /\ current_state \notin Disallowed(op))
            => pc' = "body"]_vars

\* C4 witness: an unbounded wait is still polling after more time than any
\* bounded wait of the model allows
C4_Witness ==
    /\ pc = "body"
    /\ max_wait_time < 0
    /\ elapsed >= MaxWait
    /\ slept

\* C2 as stated: when the wait returns, the number of progress updates issued
\* before "Done" equals the number of work-request log entries the polls have
\* observed, also when a new entry repeats the message of the previous last one.
C2_OneUpdatePerLogEntry ==
    (pc = "idle" /\ done_reported) => n_updates = seen_len

\* C5: for max_wait_time >= 0 and poll_interval > 0 the wait returns, whatever
\* the remote calls answer and however often they raise; with
\* max_wait_time = 0 it returns without a single fetch.
C5_BoundedWaitReturns ==
    /\ (pc = "head" /\ max_wait_time >= 0 /\ poll_interval > 0) ~> (pc = "idle")
    /\ [](max_wait_time = 0 => pc \notin {"body", "sleep"})

\* C5 witness: a bounded wait whose remote calls raised and whose state never
\* reached a stop state is at the top of the iteration that ends it
C5_Witness ==
    /\ pc = "head"
    /\ max_wait_time > 0
    /\ poll_interval > 0
    /\ loop_raised
    /\ elapsed >= max_wait_time
    /\ current_state # FinalState(op)
    /\ current_state \notin Disallowed(op)

(***************************************************************************)
(* Properties of the operations.                                           *)
(***************************************************************************)
\* C6 as stated: when a remote call (get_model_deployment or
\* list_work_request_logs) raised during an operation called with
\* wait_for_completion=True, a call inside the polling loop included, the
\* exception is logged and reaches the caller.
C6_RemoteErrorsPropagate ==
    (pc = "idle" /\ wait_for_completion /\ loop_raised)
        => (result = "raised" /\ logged)

\* C6 amended: an exception of get_model_deployment or list_work_request_logs
\* raised inside the polling loop is discarded there, neither logged nor
\* re-raised: the iteration goes on to its sleep and the exception never
\* reaches the caller.  Only the calls outside the loop (the initial request,
\* the status read of delete / activate / deactivate) raise to the caller, and
\* these are not logged by the operation.
C6_LoopErrorsAreDiscarded ==
    /\ [](loop_raised => (result # "raised" /\ ~logged))
    /\ [](result = "raised" => (pc = "idle" /\ ~logged /\ ~done_reported))
    /\ [][(loop_raised' /\ ~loop_raised) => (pc = "body" /\ pc' = "sleep")]_vars

\* C6 witness: an operation returned normally although a remote call of its
\* polling loop had raised
C6_Witness ==
    /\ pc = "idle"
    /\ wait_for_completion
    /\ loop_raised
    /\ result = "ok"
    /\ done_reported

C8_NoWaitNoPolling ==
    ~wait_for_completion =>
        /\ pc \in {"idle", "status"}
        /\ ~logs_called
        /\ ~slept
        /\ n_updates = 0
        /\ ~done_reported
        /\ (pc = "idle" /\ result = "ok")
              => n_get = (IF op = "deploy" THEN 0 ELSE 1)

\* C8 witness: delete returned without waiting, called with an unbounded wait time
C8_Witness ==
    /\ pc = "idle"
    /\ ~wait_for_completion
    /\ op = "delete"
    /\ result = "ok"
    /\ max_wait_time < 0
    /\ poll_interval > 0
    /\ n_get = 1

(***************************************************************************)
(* Properties of the log accessors.                                        *)
(***************************************************************************)
\* the deployment has a configuration for log type t
IsConfigured(t) ==
    /\ category_log_details # NoneObj
    /\ (IF t = ACCESS THEN category_log_details.access
                      ELSE category_log_details.predict) # NoneObj

\* the configuration of log type t
ConfigOf(t) ==
    IF t = ACCESS THEN category_log_details.access ELSE category_log_details.predict

\* the log object of log type t the configuration describes, as a list
ConfiguredLog(t) ==
    IF IsConfigured(t)
    THEN <<[compartment_id |-> COMPARTMENT_ID, id |-> ConfigOf(t).log_id,
            log_group_id |-> ConfigOf(t).log_group_id,
            source |-> MODEL_DEPLOYMENT_ID, annotation |-> t]>>
    ELSE <<>>

\* C9 as stated: _log_details(log_type) raises AttributeError when the
\* deployment has no category log details or no configuration for the log
\* type, and otherwise returns the configured details of that type.
C9_LogDetailsRaisesAttributeError ==
    log_call = "_log_details" =>
        IF IsConfigured(log_arg)
        THEN log_raised = "none" /\ ret_details = ConfigOf(log_arg)
        ELSE log_raised = "AttributeError"

\* C10 as stated: logs(None) includes every configured log among access and
\* predict and raises LogNotConfiguredError only when neither is configured;
\* logs("access") and logs("predict") include exactly that log and raise
\* LogNotConfiguredError when it is not configured; every other value raises
\* ValueError and creates no log object.
C10_LogsSelectsByType ==
    log_call = "logs" =>
        CASE log_arg = None ->
               IF IsConfigured(ACCESS) \/ IsConfigured(PREDICT)
               THEN /\ log_raised = "none"
                    /\ ret_loggers = ConfiguredLog(ACCESS) \o ConfiguredLog(PREDICT)
               ELSE log_raised = "LogNotConfiguredError"
          [] log_arg \in {ACCESS, PREDICT} ->
               IF IsConfigured(log_arg)
               THEN log_raised = "none" /\ ret_loggers = ConfiguredLog(log_arg)
               ELSE log_raised = "LogNotConfiguredError"
          [] OTHER ->
               log_raised = "ValueError" /\ n_created = 0

\* C11 as stated: when both logs are configured, the consolidated log that
\* logs() builds holds exactly two log instances, access then predict, each
\* with source equal to the model deployment id, annotation equal to its log
\* type, and the log id and log group id of its own configuration.
C11_ConsolidatedLogHoldsBothLogs ==
    (/\ log_call = "logs"
     /\ log_arg = None
     /\ IsConfigured(ACCESS)
     /\ IsConfigured(PREDICT))
        => /\ log_raised = "none"
           /\ Len(ret_loggers) = 2
           /\ \A i \in 1..2 :
                LET t == IF i = 1 THEN ACCESS ELSE PREDICT IN
                /\ ret_loggers[i].source = MODEL_DEPLOYMENT_ID
                /\ ret_loggers[i].annotation = t
                /\ ret_loggers[i].id = ConfigOf(t).log_id
                /\ ret_loggers[i].log_group_id = ConfigOf(t).log_group_id

(***************************************************************************)
(* Properties of predict.                                                  *)
(***************************************************************************)
\* C12: predict requires exactly one of data and json_input: it raises
\* AttributeError when both are None and when both are provided, and then
\* nothing is serialized and no request is sent to the endpoint, for either
\* value of auto_serialize_data; with exactly one of them provided the call
\* goes past the check (to the serialization, the JSON test or the request).
C12_PredictRequiresExactlyOne ==
    p_called =>
        IF (data = None) = (json_input = None)
        THEN /\ p_raised = "AttributeError"
             /\ request = NoRequest
             /\ serialized = NotSerialized
        ELSE \/ serialized # NotSerialized
             \/ request # NoRequest
             \/ p_raised = "ValueError"

\* C12 witness: predict was called with auto_serialize_data=True, a data
\* value Python takes as false and a json_input, and raised AttributeError
\* without serializing or sending
C12_Witness ==
    /\ p_called
    /\ auto_serialize_data
    /\ data = "falsy"
    /\ json_input = "truthy"
    /\ p_raised = "AttributeError"
    /\ request = NoRequest
    /\ serialized = NotSerialized

(***************************************************************************)
(* Properties of the notebook driver.                                      *)
(***************************************************************************)
\* C13: a cell with any tag in exclude_tags is excluded from running:
\* preprocess_cell leaves the cell and the resources unchanged, does not
\* execute it and prints nothing; every cell handed to preprocess_cell that
\* has no tag in exclude_tags (also when exclude_tags is empty or None) is
\* executed.
C13_ExcludedCellsAreSkipped ==
    [][(nb_pc = "cells" /\ idx <= Len(nb))
         => IF \E tag \in nb[idx].tags : tag \in exclude_tags.tags
            THEN /\ nb' = nb
                 /\ resources' = resources
                 /\ nb_pc' = "cells"
                 /\ idx' = idx + 1
            ELSE nb'[idx].state \in {"executed", "failed", "died"}]_vars

\* C13 witness: the run of a notebook is over; its first cell, with an
\* exclude tag among its tags, was skipped and its last cell, with a tag that
\* is no exclude tag, was executed and printed
C13_Witness ==
    /\ nb_pc = "finally"
    /\ Len(nb) = MaxCells
    /\ exclude_tags.tags = {"skip"}
    /\ nb[1].tags = {"skip", "keep"}
    /\ nb[1].state = "new"
    /\ nb[Len(nb)].tags = {"keep"}
    /\ nb[Len(nb)].state = "executed"
    /\ nb[Len(nb)].printed

\* a cell of the notebook raised CellExecutionError
CellFailed == \E i \in 1..Len(nb) : nb[i].state = "failed"

\* C14: run_notebook returns the CellExecutionError object when a notebook
\* cell failed and None otherwise, and never raises it; whenever it returns,
\* the (possibly partially executed) notebook has been written to the output
\* path.
C14_RunNotebookReturnsCellError ==
    /\ rn_result = "returned" =>
         /\ output_written
         /\ ex = (IF CellFailed THEN "CellExecutionError" ELSE None)
    /\ rn_raised # "CellExecutionError"

\* C14 witness: run_notebook returned the error of the failing last cell,
\* after the cells before it were executed and the notebook was written
C14_Witness ==
    /\ rn_result = "returned"
    /\ ex = "CellExecutionError"
    /\ output_written
    /\ Len(nb) = MaxCells
    /\ nb[1].state = "executed"
    /\ nb[Len(nb)].state = "failed"

\* C15 as stated: copy_outputs is called after the notebook run and before
\* any failure is reported, and main raises if and only if run_notebook
\* returned an error.
C15_MainRaisesIffCellError ==
    /\ copy_called => rn_result = "returned"
    /\ main_raised # "none" => copy_called
    /\ nb_pc = "done" =>
         (main_raised # "none" <=> (rn_result = "returned" /\ ex # None))

\* C15 amended: copy_outputs is called only after run_notebook returned, and
\* always then; the cell error is raised by main only after copy_outputs was
\* called and returned; when run_notebook returned an error main always
\* raises (the cell error, or the exception of copy_outputs); when it
\* returned None main raises only the exception of copy_outputs; when
\* a step before copy_outputs raises (the setup, run_notebook itself with an
\* error that is no cell error) main raises without copy_outputs being called.
C15_CopyBeforeCellError ==
    /\ copy_called => rn_result = "returned"
    /\ (nb_pc = "done" /\ rn_result = "returned") => copy_called
    /\ main_raised = "CellExecutionError" =>
         (copy_called /\ failed_step = "none" /\ rn_result = "returned" /\ ex # None)
    /\ (nb_pc = "done" /\ rn_result = "returned" /\ ex # None) => main_raised # "none"
    /\ (nb_pc = "done" /\ rn_result = "returned" /\ ex = None)
         => (main_raised # "none" <=> failed_step = "copy_outputs")
    /\ (nb_pc = "done" /\ rn_result # "returned")
         => (/\ main_raised = "Exception"
             /\ failed_step \in {"setup", "run_notebook"}
             /\ ~copy_called)

\* C15 witness: main raised the cell error after the output notebook was
\* written and copy_outputs was called
C15_Witness ==
    /\ nb_pc = "done"
    /\ main_raised = "CellExecutionError"
    /\ copy_called
    /\ output_written
    /\ CellFailed

(***************************************************************************)
(* Properties of the cached url.                                           *)
(***************************************************************************)
\* C16 as stated: when a wait ends because the state reached final_state, the
\* cached url equals the model_deployment_url of the remote payload in which
\* that state change was observed (whenever that payload contains one), for
\* every interleaving of successful and failing list_work_request_logs calls.
C16_UrlOfObservedChange ==
    (/\ pc = "idle"
     /\ done_reported
     /\ current_state = FinalState(op)
     /\ seen_url \in Urls)
        => url = seen_url

=============================================================================
